---- MODULE Spec2Model ----
(***************************************************************************)
(* DermCareAI backend: the two-stage classification cascade of             *)
(* ModelService.process_image (app.py), the Grad-CAM routines and the      *)
(* compositor of grad_cam.py, and the preprocessing pipeline of            *)
(* ImagePreprocessing.py.                                                  *)
(*                                                                         *)
(* Spec           one request at a time through predict / process_image    *)
(* SpecGradCam    pytorch_grad_cam / tensorflow_grad_cam heatmap arithmetic*)
(* SpecComposite  apply_grad_cam                                           *)
(* SpecPreprocess ImagePreprocessor.preprocess                             *)
(* SpecConcurrent several requests on the event loop, one ModelService     *)
(***************************************************************************)
EXTENDS Integers, Sequences, FiniteSets, TLC

VARIABLES
    pc,          \* position of the request inside predict / process_image
    request,     \* what the uploaded file is like
    s1,          \* mobilenet_result
    s2,          \* nasnet_result
    calls,       \* per-request call counts of the model operations
    gradcams,    \* the Grad-CAM attributions run for this request, in order
    response,    \* what the caller gets
    nasnet_arch, \* how the loaded Keras model answers the target-layer lookup
    gc,          \* one Grad-CAM heatmap computation
    cmp,         \* one apply_grad_cam computation
    pp,          \* one ImagePreprocessor.preprocess computation
    conc         \* requests served at the same time by the one ModelService

cascadeVars == <<pc, request, s1, s2, calls, gradcams, response, nasnet_arch>>
vars == <<pc, request, s1, s2, calls, gradcams, response, nasnet_arch, gc, cmp, pp, conc>>

(***************************************************************************)
(* Bounds                                                                  *)
(***************************************************************************)
\* probabilities are multiples of 1/PScale
PScale == 10
\* spatial cells of an activation / gradient grid
NCells == 2
\* channels of the target layer's activation
FeatCh == 4
\* activations lie in 0..MaxAct, gradients in -MaxGrad..MaxGrad
MaxAct == 1
MaxGrad == 1
\* pixels across the image given to apply_grad_cam (one row)
ImgW == 2
\* image values and alpha are multiples of 1/ImgScale, heatmap values of 1/HeatScale
ImgScale == 10
HeatScale == 510
\* how far outside [0,1] an image value may start, in units of 1/ImgScale
ImgOver == 3
\* pixels of the row given to preprocess, and of the row resize returns
\* (standing for target_size = (224, 224))
PpLen == 3
TargetLen == 2
\* requests in flight at the same time
NReq == 2

(***************************************************************************)
(* Program constants                                                       *)
(***************************************************************************)
\* ModelConfig.num_classes: the Stage-1 head has two outputs
num_classes == 2
\* channels of the input tensor: the upload is converted to RGB
InCh == 3
\* apply_grad_cam: alpha = 0.4, in units of 1/10
DefaultAlpha == 4
\* hair_remove: the 17 x 17 structuring element and the threshold 10
KernelSize == 17
HairThreshold == 10
\* the largest uint8 sample
MaxSample == 255

\* SkinLesionClassifier.LABELS: the Stage-2 head is Dense(len(LABELS))
LABELS ==
    [k \in 0..6 |->
        CASE k = 0 -> "akiec" [] k = 1 -> "bcc" [] k = 2 -> "bkl"
          [] k = 3 -> "df" [] k = 4 -> "mel" [] k = 5 -> "nv" [] k = 6 -> "vasc"]

\* ModelService.nasnet_classes
nasnet_classes ==
    [k \in 0..6 |->
        CASE k = 0 -> "Actinic Keratosis"
          [] k = 1 -> "Basal Cell Carcinoma"
          [] k = 2 -> "Benign Keratosis"
          [] k = 3 -> "Dermatofibroma"
          [] k = 4 -> "Melanoma"
          [] k = 5 -> "Melanocytic Nevus"
          [] k = 6 -> "Vascular Lesion"]

\* the attributes a MobileNetPredictor instance answers to
MobileNetPredictorMethods ==
    {"_load_model", "_get_transform", "prepare_image", "predict", "predict_with_gradcam"}


(***************************************************************************)
(* Values                                                                  *)
(***************************************************************************)
Classes1 == 0..(num_classes - 1)
Classes2 == DOMAIN LABELS

\* index of the first maximum: torch.argmax / tf.argmax
ArgMax(v) ==
    CHOOSE i \in DOMAIN v :
        \A j \in DOMAIN v : v[i] > v[j] \/ (v[i] = v[j] /\ i <= j)

\* softmax outputs of the Stage-1 head: two probabilities that sum to one
Stage1Outputs ==
    {[c \in Classes1 |-> IF c = 0 THEN a ELSE PScale - a] : a \in 0..PScale}

\* softmax outputs of the Stage-2 head: the mass sits on at most two classes
Stage2Outputs ==
    {[c \in Classes2 |-> IF c = i THEN a ELSE IF c = j THEN PScale - a ELSE 0] :
        <<i, j, a>> \in {t \in Classes2 \X Classes2 \X (0..PScale) : t[1] < t[2]}}

NoPrediction1 == [class_index |-> -1, probabilities |-> [c \in Classes1 |-> 0]]
NoPrediction2 == [class_index |-> -1, probabilities |-> [c \in Classes2 |-> 0]]
NoCalls ==
    [mobilenet_predict |-> 0, nasnet_predict_with_gradcam |-> 0, nasnet_model_predict |-> 0,
     tensorflow_grad_cam |-> 0, pytorch_grad_cam |-> 0, apply_grad_cam |-> 0]
NoRequest == [is_image |-> TRUE, decodable |-> TRUE, preprocessed |-> TRUE]
NoResponse ==
    [kind |-> "none", status_code |-> 0, detail |-> "", class_name |-> "",
     confidence |-> -1, model_used |-> ""]

\* fastapi.HTTPException(status_code, detail)
HTTPException(code, detail) ==
    [kind |-> "error", status_code |-> code, detail |-> detail, class_name |-> "",
     confidence |-> -1, model_used |-> ""]

\* process_image: except Exception as e: raise HTTPException(status_code=500, detail=str(e))
ExceptHandler(e) == HTTPException(500, e)

\* the dictionary process_image returns, sent with status 200
Result(final_class, final_confidence, model_used) ==
    [kind |-> "result", status_code |-> 200, detail |-> "", class_name |-> final_class,
     confidence |-> final_confidence, model_used |-> model_used]

\* MobileNetPredictor.predict
MobileNetPredictor_predict(probabilities) ==
    [class_index |-> ArgMax(probabilities), probabilities |-> probabilities]

\* process_image: if mobilenet_predicted_class == 0
NeedsSpecialistAlways(mobilenet_predicted_class) == TRUE
NeedsSpecialist(mobilenet_predicted_class) == mobilenet_predicted_class = 0

\* SkinLesionClassifier.predict_with_gradcam: the class handed to tensorflow_grad_cam
GradCamTargetFirstClass(predictions) == 0
GradCamTarget(predictions) == ArgMax(predictions)

\* SkinLesionClassifier.predict_with_gradcam: the dictionary it returns
SkinLesionClassifier_result(predictions) ==
    [class_index |-> ArgMax(predictions), probabilities |-> predictions]

\* process_image: final_confidence on the NASNet branch
NasnetConfidenceFromStage1(nasnet_result, mobilenet_confidence) == mobilenet_confidence
NasnetConfidence(nasnet_result, mobilenet_confidence) ==
    nasnet_result.probabilities[nasnet_result.class_index]

\* tensorflow_grad_cam: model.get_layer(layer_name), else the last Conv2D layer
TargetLayer(arch) == IF arch = "named" THEN "conv2d_93" ELSE "last_conv2d"

(***************************************************************************)
(* predict / ModelService.process_image                                    *)
(***************************************************************************)
Fail(e) ==
    /\ pc' = "Failed"
    /\ response' = e

\* predict: content-type check, file.read(); process_image: decode, preprocess
ReceiveRequest ==
    /\ pc = "Idle"
    /\ \E img \in BOOLEAN, dec \in BOOLEAN, pre \in BOOLEAN :
        /\ request' = [is_image |-> img, decodable |-> dec, preprocessed |-> pre]
        /\ IF ~img
             THEN Fail(HTTPException(400, "File must be an image"))
             ELSE IF ~dec
               THEN Fail(ExceptHandler("cannot identify image file"))
               ELSE IF ~pre
                 THEN Fail(ExceptHandler("400: Image preprocessing failed"))
                 ELSE pc' = "Start" /\ UNCHANGED response
    /\ UNCHANGED <<s1, s2, calls, gradcams, nasnet_arch>>

\* process_image: mobilenet_result = self.mobilenet.predict(processed_image)
Stage1Predict ==
    /\ pc = "Start"
    /\ calls' = [calls EXCEPT !.mobilenet_predict = @ + 1]
    /\ \/ \E out \in Stage1Outputs :
            /\ s1' = MobileNetPredictor_predict(out)
            /\ pc' = "Stage1Predicted"
            /\ UNCHANGED response
       \/ /\ Fail(ExceptHandler("mobilenet inference failed"))
          /\ UNCHANGED s1
    /\ UNCHANGED <<request, s2, gradcams, nasnet_arch>>

\* process_image, NASNet branch: predict_with_gradcam, label lookup
Stage2Predict ==
    /\ pc = "Stage1Predicted"
    /\ NeedsSpecialist(s1.class_index)
    /\ \/ \E out \in Stage2Outputs :
            LET nasnet_result == SkinLesionClassifier_result(out)
                mobilenet_confidence == s1.probabilities[s1.class_index]
            IN  /\ calls' = [calls EXCEPT !.nasnet_predict_with_gradcam = @ + 1,
                                          !.nasnet_model_predict = @ + 1,
                                          !.tensorflow_grad_cam = @ + 1,
                                          !.apply_grad_cam = @ + 1]
                /\ gradcams' = Append(gradcams,
                                  [model |-> "NASNetMobile",
                                   layer |-> TargetLayer(nasnet_arch),
                                   target_class |-> GradCamTarget(out)])
                /\ s2' = nasnet_result
                /\ IF nasnet_result.class_index \in DOMAIN nasnet_classes
                     THEN /\ pc' = "Stage2Predicted"
                          /\ response' =
                               Result(nasnet_classes[nasnet_result.class_index],
                                      NasnetConfidence(nasnet_result, mobilenet_confidence),
                                      "NASNetMobile")
                     ELSE Fail(ExceptHandler("KeyError"))
       \/ \* self.model.predict(image) raises
          /\ calls' = [calls EXCEPT !.nasnet_predict_with_gradcam = @ + 1,
                                    !.nasnet_model_predict = @ + 1]
          /\ Fail(ExceptHandler("nasnet inference failed"))
          /\ UNCHANGED <<s2, gradcams>>
       \/ \* the gradient computation of tensorflow_grad_cam raises
          /\ calls' = [calls EXCEPT !.nasnet_predict_with_gradcam = @ + 1,
                                    !.nasnet_model_predict = @ + 1,
                                    !.tensorflow_grad_cam = @ + 1]
          /\ \E out \in Stage2Outputs :
                gradcams' = Append(gradcams,
                               [model |-> "NASNetMobile",
                                layer |-> TargetLayer(nasnet_arch),
                                target_class |-> GradCamTarget(out)])
          /\ Fail(ExceptHandler("nasnet gradient failed"))
          /\ UNCHANGED s2
    /\ UNCHANGED <<request, s1, nasnet_arch>>

\* process_image, else branch: the label, confidence and model name are set, then
\* self.mobilenet.gradcam_visualization is looked up on the MobileNetPredictor:
\* the class defines no such attribute, the AttributeError reaches the handler
Stage1Terminal ==
    /\ pc = "Stage1Predicted"
    /\ ~NeedsSpecialist(s1.class_index)
    /\ "gradcam_visualization" \notin MobileNetPredictorMethods
    /\ Fail(ExceptHandler("'MobileNetPredictor' object has no attribute 'gradcam_visualization'"))
    /\ UNCHANGED <<request, s1, s2, calls, gradcams, nasnet_arch>>

\* process_image: JPEG + base64 of the visualization, return the dictionary
Finalize ==
    /\ pc = "Stage2Predicted"
    /\ pc' = "Finalized"
    /\ UNCHANGED <<request, s1, s2, calls, gradcams, response, nasnet_arch>>

\* the next upload: every per-request value is fresh, the models stay loaded
NextRequest ==
    /\ pc \in {"Finalized", "Failed"}
    /\ pc' = "Idle"
    /\ request' = NoRequest
    /\ s1' = NoPrediction1
    /\ s2' = NoPrediction2
    /\ calls' = NoCalls
    /\ gradcams' = <<>>
    /\ response' = NoResponse
    /\ UNCHANGED nasnet_arch

GcIdle == [phase |-> "off"]
CmpIdle == [phase |-> "off"]
PpIdle == [phase |-> "off"]
ConcIdle == [phase |-> "off"]

\* ModelService.__init__: both models loaded once
Init ==
    /\ pc = "Idle"
    /\ request = NoRequest
    /\ s1 = NoPrediction1
    /\ s2 = NoPrediction2
    /\ calls = NoCalls
    /\ gradcams = <<>>
    /\ response = NoResponse
    /\ nasnet_arch \in {"named", "last_conv"}
    /\ gc = GcIdle
    /\ cmp = CmpIdle
    /\ pp = PpIdle
    /\ conc = ConcIdle

Next ==
    \/ (ReceiveRequest /\ UNCHANGED <<gc, cmp, pp, conc>>)
    \/ (Stage1Predict /\ UNCHANGED <<gc, cmp, pp, conc>>)
    \/ (Stage2Predict /\ UNCHANGED <<gc, cmp, pp, conc>>)
    \/ (Stage1Terminal /\ UNCHANGED <<gc, cmp, pp, conc>>)
    \/ (Finalize /\ UNCHANGED <<gc, cmp, pp, conc>>)
    \/ (NextRequest /\ UNCHANGED <<gc, cmp, pp, conc>>)

Spec == Init /\ [][Next]_vars


(***************************************************************************)
(* Grad-CAM: pytorch_grad_cam and tensorflow_grad_cam                      *)
(*                                                                         *)
(* A grid is a function channel -> cell -> integer.  Channel weights are   *)
(* kept as sums over the cells (NCells times the mean the code takes), so  *)
(* every heatmap value below is NCells times the code's value.  A quotient *)
(* num / (den + eps * 1e-8) is kept as the record of its three integers;   *)
(* 1e-8 is smaller than any non-zero difference of two grid values.        *)
(***************************************************************************)
GridCells == 1..NCells
FeatChannels == 0..(FeatCh - 1)
InChannels == 0..(InCh - 1)
Grids(chs, vals) == [chs -> [GridCells -> vals]]

RECURSIVE SumF(_, _)
SumF(f, S) ==
    IF S = {} THEN 0
    ELSE LET x == CHOOSE y \in S : TRUE IN f[x] + SumF(f, S \ {x})

MaxOf(h) == CHOOSE m \in {h[x] : x \in DOMAIN h} : \A x \in DOMAIN h : h[x] <= m
MinOf(h) == CHOOSE m \in {h[x] : x \in DOMAIN h} : \A x \in DOMAIN h : h[x] >= m

\* floating-point division num / (den + eps * 1e-8)
Quot(n, d, e) == [num |-> n, den |-> d, eps |-> e]
\* 0/0 is NaN, x/0 is an infinity
IsNumber(q) == ~(q.den = 0 /\ q.eps = 0)
IsZero(q) == IsNumber(q) /\ q.num = 0
InUnit(q) ==
    /\ IsNumber(q)
    /\ \/ (q.den >= 0 /\ 0 <= q.num /\ q.num <= q.den)
       \/ (q.den < 0 /\ q.den <= q.num /\ q.num <= 0)

\* torch.mean(gradients, dim=(2, 3)) / tf.reduce_mean(grads, axis=(1, 2)), times NCells
ChannelWeights(gradients) ==
    [c \in DOMAIN gradients |-> SumF(gradients[c], GridCells)]

\* pytorch_grad_cam: for i, w in enumerate(weights[0]): heatmap += w * features[0, i]
\* tensorflow_grad_cam: reduce_sum(weights * conv_output, axis=-1)
WeightedSum(weights, features) ==
    [x \in GridCells |->
        SumF([i \in DOMAIN weights |-> weights[i] * features[i][x]], DOMAIN weights)]

\* F.relu(heatmap) / tf.maximum(heatmap, 0)
Relu(h) == [x \in DOMAIN h |-> IF h[x] > 0 THEN h[x] ELSE 0]

\* pytorch_grad_cam: (heatmap - heatmap.min()) / (heatmap.max() - heatmap.min() + 1e-8)
PytorchNormalize(h) ==
    [x \in DOMAIN h |-> Quot(h[x] - MinOf(h), MaxOf(h) - MinOf(h), NCells)]

\* tensorflow_grad_cam: tf.maximum(heatmap, 0) / tf.math.reduce_max(heatmap)
TensorflowNormalize(raw) ==
    [x \in DOMAIN raw |-> Quot(Relu(raw)[x], MaxOf(raw), 0)]

NoGrid == [c \in {} |-> 0]
GcStart(backend, arch) ==
    [phase |-> "start", backend |-> backend, arch |-> arch, target_layer |-> "",
     fallbacks |-> 0, error |-> "", activation |-> NoGrid, gradient |-> NoGrid,
     gradient_wrt |-> "", weights |-> <<>>, raw |-> <<>>,
     rectified |-> <<>>, heatmap |-> <<>>]

\* how a loaded model answers the lookup of the target layer
PytorchArchs == {"named", "last_conv", "no_conv"}
TensorflowArchs == {"named", "last_conv", "no_conv"}

\* pytorch_grad_cam: named_modules() scan, ValueError when the name is absent;
\* no other layer is looked for
PytorchFindLayer ==
    /\ gc.phase = "start"
    /\ gc.backend = "pytorch"
    /\ IF gc.arch = "named"
         THEN gc' = [gc EXCEPT !.phase = "layer", !.target_layer = "features"]
         ELSE gc' = [gc EXCEPT !.phase = "failed", !.error = "ValueError"]

\* tensorflow_grad_cam: get_layer, on ValueError the last Conv2D layer; when the
\* model has none, `if not target_layer` reads a name that was never bound
TensorflowFindLayer ==
    /\ gc.phase = "start"
    /\ gc.backend = "tensorflow"
    /\ CASE gc.arch = "named" ->
              gc' = [gc EXCEPT !.phase = "layer", !.target_layer = "conv2d_93"]
         [] gc.arch = "last_conv" ->
              gc' = [gc EXCEPT !.phase = "layer", !.target_layer = "last_conv2d",
                               !.fallbacks = @ + 1]
         [] OTHER ->
              gc' = [gc EXCEPT !.phase = "failed", !.error = "UnboundLocalError",
                               !.fallbacks = @ + 1]

\* pytorch_grad_cam: forward, backward, weights from input_tensor.grad, the
\* features of the target layer, weighted sum, relu, normalisation
PytorchGradCam ==
    /\ gc.phase = "layer"
    /\ gc.backend = "pytorch"
    /\ \E features \in Grids(FeatChannels, 0..MaxAct),
          gradients \in Grids(InChannels, (-MaxGrad)..MaxGrad) :
          LET weights == ChannelWeights(gradients)
              heatmap == Relu(WeightedSum(weights, features))
          IN  gc' = [gc EXCEPT !.phase = "done",
                               !.activation = features,
                               !.gradient = gradients,
                               !.gradient_wrt = "input_tensor",
                               !.weights = weights,
                               !.raw = WeightedSum(weights, features),
                               !.rectified = heatmap,
                               !.heatmap = PytorchNormalize(heatmap)]

\* tensorflow_grad_cam: grad_model under a GradientTape, weights from
\* tape.gradient(loss, conv_output), weighted sum, normalisation
TensorflowGradCam ==
    /\ gc.phase = "layer"
    /\ gc.backend = "tensorflow"
    /\ \E conv_output \in Grids(FeatChannels, 0..MaxAct),
          grads \in Grids(FeatChannels, (-MaxGrad)..MaxGrad) :
          LET weights == ChannelWeights(grads)
              heatmap == WeightedSum(weights, conv_output)
          IN  gc' = [gc EXCEPT !.phase = "done",
                               !.activation = conv_output,
                               !.gradient = grads,
                               !.gradient_wrt = "conv_output",
                               !.weights = weights,
                               !.raw = heatmap,
                               !.rectified = Relu(heatmap),
                               !.heatmap = TensorflowNormalize(heatmap)]

InitGradCam ==
    /\ pc = "Idle"
    /\ request = NoRequest
    /\ s1 = NoPrediction1
    /\ s2 = NoPrediction2
    /\ calls = NoCalls
    /\ gradcams = <<>>
    /\ response = NoResponse
    /\ nasnet_arch = "named"
    /\ gc \in {GcStart("pytorch", a) : a \in PytorchArchs}
                \cup {GcStart("tensorflow", a) : a \in TensorflowArchs}
    /\ cmp = CmpIdle
    /\ pp = PpIdle
    /\ conc = ConcIdle

NextGradCam ==
    \/ (PytorchFindLayer /\ UNCHANGED <<cascadeVars, cmp, pp, conc>>)
    \/ (TensorflowFindLayer /\ UNCHANGED <<cascadeVars, cmp, pp, conc>>)
    \/ (PytorchGradCam /\ UNCHANGED <<cascadeVars, cmp, pp, conc>>)
    \/ (TensorflowGradCam /\ UNCHANGED <<cascadeVars, cmp, pp, conc>>)

SpecGradCam == InitGradCam /\ [][NextGradCam]_vars

(***************************************************************************)
(* apply_grad_cam                                                          *)
(*                                                                         *)
(* An image is one row of ImgW pixels, pixel -> channel -> value, in units *)
(* of 1/ImgScale; a heatmap is a row of 1..ImgW cells in units of          *)
(* 1/HeatScale.                                                            *)
(***************************************************************************)
ImgCells == 1..ImgW
ImgLevels == {-ImgOver, 0, ImgScale \div 2, ImgScale, ImgScale + ImgOver}
GbLevels == {-ImgOver, ImgScale \div 2, ImgScale + ImgOver}
HeatLevels == {0, 1, HeatScale}
Alphas == {-DefaultAlpha, 0, DefaultAlpha}

\* the pixels tried: the red value free, green and blue alike
Pixels == {[c \in InChannels |-> IF c = 0 THEN a ELSE b] : a \in ImgLevels, b \in GbLevels}

\* cv2.resize(heatmap, (width, height)), bilinear, along the row: the value at
\* x as the fraction num/den
ResizeLinear(h, W) ==
    LET w == Len(h)
    IN  [x \in 1..W |->
            LET F == (2 * (x - 1) + 1) * w - W
                s0 == F \div (2 * W)
                sx == IF s0 < 0 THEN 0 ELSE IF s0 >= w - 1 THEN w - 1 ELSE s0
                fr == IF s0 < 0 \/ s0 >= w - 1 THEN 0 ELSE F % (2 * W)
                a == h[sx + 1]
                b == IF fr = 0 THEN 0 ELSE h[sx + 2]
            IN  [num |-> (2 * W - fr) * a + fr * b, den |-> 2 * W * HeatScale]]

\* apply_grad_cam: resize only when the shapes differ
ResizedHeatmap(image, heatmap) ==
    IF Len(heatmap) # Cardinality(DOMAIN image)
      THEN ResizeLinear(heatmap, Cardinality(DOMAIN image))
      ELSE [x \in DOMAIN heatmap |-> [num |-> heatmap[x], den |-> HeatScale]]

\* np.uint8(255 * heatmap): truncation, eight bits
Uint8Of255(q) == ((255 * q.num) \div q.den) % 256

\* heatmap_colored = zeros_like(image); heatmap_colored[:, :, 0] = heatmap[:, :, 0]
HeatmapColoredAllChannels(u8, x, c) == u8[x]
HeatmapColored(u8, x, c) == IF c = 0 THEN u8[x] ELSE 0

\* np.clip(visualization, 0, 1)
ClipNone(v) == v
Clip(v) == IF v < 0 THEN 0 ELSE IF v > ImgScale THEN ImgScale ELSE v

\* apply_grad_cam(original_image, heatmap, alpha)
ApplyGradCam(original_image, heatmap, alpha) ==
    LET resized == ResizedHeatmap(original_image, heatmap)
        u8 == [x \in DOMAIN resized |-> Uint8Of255(resized[x])]
    IN  [x \in DOMAIN original_image |->
            [c \in DOMAIN original_image[x] |->
                Clip(original_image[x][c] + alpha * HeatmapColored(u8, x, c))]]

CmpInputs ==
    {[phase |-> "input", image |-> im, heatmap |-> h, alpha |-> a, out |-> <<>>] :
        im \in [ImgCells -> Pixels],
        h \in UNION {[1..w -> HeatLevels] : w \in 1..ImgW},
        a \in Alphas}

ApplyGradCamCall ==
    /\ cmp.phase = "input"
    /\ cmp' = [cmp EXCEPT !.phase = "done",
                          !.out = ApplyGradCam(cmp.image, cmp.heatmap, cmp.alpha)]

InitComposite ==
    /\ pc = "Idle"
    /\ request = NoRequest
    /\ s1 = NoPrediction1
    /\ s2 = NoPrediction2
    /\ calls = NoCalls
    /\ gradcams = <<>>
    /\ response = NoResponse
    /\ nasnet_arch = "named"
    /\ gc = GcIdle
    /\ cmp \in CmpInputs
    /\ pp = PpIdle
    /\ conc = ConcIdle

NextComposite ==
    ApplyGradCamCall /\ UNCHANGED <<cascadeVars, gc, pp, conc>>

SpecComposite == InitComposite /\ [][NextComposite]_vars

(***************************************************************************)
(* ImagePreprocessor                                                       *)
(*                                                                         *)
(* An image is one row of RGB pixels with uint8 samples.  The OpenCV calls *)
(* are kept as row filters: black-hat, threshold and nearest-neighbour     *)
(* resize as OpenCV defines them, Telea inpainting as a copy of the        *)
(* nearest unmasked pixel, the Gaussian blur as the 1-2-1 kernel.          *)
(***************************************************************************)
None == <<>>
PixelColours == {<<0, 0, 0>>, <<200, 120, 100>>, <<90, 60, 50>>}
PpImages == [1..PpLen -> PixelColours]

Saturate(v) == IF v < 0 THEN 0 ELSE IF v > MaxSample THEN MaxSample ELSE v

\* cv2.cvtColor(image, cv2.COLOR_RGB2GRAY)
Gray(image) ==
    [x \in DOMAIN image |->
        (299 * image[x][1] + 587 * image[x][2] + 114 * image[x][3] + 500) \div 1000]

Window(h, x) == {y \in DOMAIN h : y - x <= KernelSize \div 2 /\ x - y <= KernelSize \div 2}

\* cv2.morphologyEx(gray_scale, cv2.MORPH_BLACKHAT, kernel): closing minus source
BlackHat(gray) ==
    LET dilated == [x \in DOMAIN gray |-> MaxOf([y \in Window(gray, x) |-> gray[y]])]
        closed == [x \in DOMAIN gray |-> MinOf([y \in Window(gray, x) |-> dilated[y]])]
    IN  [x \in DOMAIN gray |-> closed[x] - gray[x]]

\* cv2.threshold(blackhat, 10, 255, cv2.THRESH_BINARY)
Threshold(blackhat) ==
    [x \in DOMAIN blackhat |-> IF blackhat[x] > HairThreshold THEN MaxSample ELSE 0]

\* cv2.inpaint(image, threshold, 1, cv2.INPAINT_TELEA)
Inpaint(image, mask) ==
    LET known == {y \in DOMAIN image : mask[y] = 0}
        dist(x, y) == IF x > y THEN x - y ELSE y - x
        nearest(x) ==
            CHOOSE y \in known :
                \A z \in known : dist(x, y) < dist(x, z) \/ (dist(x, y) = dist(x, z) /\ y <= z)
    IN  [x \in DOMAIN image |->
            IF mask[x] = 0 \/ known = {} THEN image[x] ELSE image[nearest(x)]]

\* the body of hair_remove's try block
HairFilter(image) == Inpaint(image, Threshold(BlackHat(Gray(image))))

\* cv2.GaussianBlur(image, (0, 0), 2.0)
GaussianBlur(image) ==
    LET n == Len(image)
        at(x) == IF x < 1 THEN image[IF n > 1 THEN 2 ELSE 1]
                 ELSE IF x > n THEN image[IF n > 1 THEN n - 1 ELSE n] ELSE image[x]
    IN  [x \in DOMAIN image |->
            [c \in 1..3 |-> (at(x - 1)[c] + 2 * image[x][c] + at(x + 1)[c] + 2) \div 4]]

\* cv2.addWeighted(image, 1.5, gaussian, -0.5, 0)
SharpenFilter(image) ==
    LET gaussian == GaussianBlur(image)
    IN  [x \in DOMAIN image |->
            [c \in 1..3 |-> Saturate((3 * image[x][c] - gaussian[x][c] + 1) \div 2)]]

\* cv2.resize(image, self.target_size, interpolation=cv2.INTER_NEAREST)
ResizeNearest(image) ==
    [x \in 1..TargetLen |-> image[((x - 1) * Len(image)) \div TargetLen + 1]]

\* ImagePreprocessor.hair_remove: raise_at is the call of the try block that
\* raises (1 cvtColor, 2 morphologyEx, 3 threshold, 4 inpaint), 0 when none does
hair_remove_returns_none(image, raise_at) ==
    IF image = None \/ raise_at # 0 THEN None ELSE HairFilter(image)
hair_remove(image, raise_at) ==
    IF image = None \/ raise_at # 0 THEN image ELSE HairFilter(image)

\* ImagePreprocessor.sharpen_image: raise_at 1 GaussianBlur, 2 addWeighted
sharpen_image(image, raise_at) ==
    IF image = None \/ raise_at # 0 THEN image ELSE SharpenFilter(image)

\* ImagePreprocessor.preprocess: the three steps, None when the resize raises
preprocess(image, hair_raise_at, sharpen_raise_at, resize_raises) ==
    LET after_hair == hair_remove(image, hair_raise_at)
        after_sharpen == sharpen_image(after_hair, sharpen_raise_at)
    IN  [after_hair |-> after_hair,
         after_sharpen |-> after_sharpen,
         out |-> IF after_sharpen = None \/ resize_raises
                   THEN None ELSE ResizeNearest(after_sharpen)]

PpInputs ==
    {[phase |-> "input", image |-> im, hair_raise_at |-> h, sharpen_raise_at |-> s,
      resize_raises |-> r, after_hair |-> None, after_sharpen |-> None, out |-> None] :
        im \in PpImages, h \in 0..4, s \in 0..2, r \in BOOLEAN}

PreprocessCall ==
    /\ pp.phase = "input"
    /\ LET res == preprocess(pp.image, pp.hair_raise_at, pp.sharpen_raise_at, pp.resize_raises)
       IN  pp' = [pp EXCEPT !.phase = "done",
                            !.after_hair = res.after_hair,
                            !.after_sharpen = res.after_sharpen,
                            !.out = res.out]

InitPreprocess ==
    /\ pc = "Idle"
    /\ request = NoRequest
    /\ s1 = NoPrediction1
    /\ s2 = NoPrediction2
    /\ calls = NoCalls
    /\ gradcams = <<>>
    /\ response = NoResponse
    /\ nasnet_arch = "named"
    /\ gc = GcIdle
    /\ cmp = CmpIdle
    /\ pp \in PpInputs
    /\ conc = ConcIdle

NextPreprocess ==
    PreprocessCall /\ UNCHANGED <<cascadeVars, gc, cmp, conc>>

SpecPreprocess == InitPreprocess /\ [][NextPreprocess]_vars

(***************************************************************************)
(* Requests served at the same time                                        *)
(*                                                                         *)
(* predict is a coroutine on the one event loop of the server: it gives    *)
(* the loop back only at `await file.read()`; process_image contains no    *)
(* await, so its body runs from entry to return as the loop's running      *)
(* task.  Request r uploads image r; weights1[r] and weights2[r] are what  *)
(* the loaded weights compute for that image.                              *)
(***************************************************************************)
Requests == 1..NReq

ConcStage1Outs == {out \in Stage1Outputs : out[0] \in {PScale \div 5, PScale - PScale \div 10}}
ConcStage2Outs == {out \in Stage2Outputs : out[0] = PScale \/ out[4] = PScale}

NewTask ==
    [pc |-> "new", overlapped |-> FALSE, s1 |-> NoPrediction1, s2 |-> NoPrediction2,
     response |-> NoResponse]

\* MobileNetV2Classifier.forward: the classifier starts with a Dropout, which
\* is the identity in eval mode and random in training mode
Stage1Forward(w, training) == IF training THEN ConcStage1Outs ELSE {w}

\* MobileNetPredictor.predict leaves the mode _load_model set with model.eval()
ModeAfterPredictTrain(training) == TRUE
ModeAfterPredict(training) == training

\* predict: the content-type check, then `await file.read()` suspends the task
ConcAccept(r) ==
    /\ conc.running = 0
    /\ conc.task[r].pc = "new"
    /\ conc' = [conc EXCEPT !.task[r].pc = "reading"]

\* the read is complete: the loop resumes the task, which enters process_image
ConcResume(r) ==
    /\ conc.running = 0
    /\ conc.task[r].pc = "reading"
    /\ conc' = [conc EXCEPT !.running = r,
                            !.task[r].pc = "Start",
                            !.task[r].overlapped =
                                \E q \in Requests \ {r} : conc.task[q].pc = "reading"]

\* process_image: self.mobilenet.predict(processed_image)
ConcStage1(r) ==
    /\ conc.running = r
    /\ conc.task[r].pc = "Start"
    /\ \E out \in Stage1Forward(conc.weights1[r], conc.training) :
          conc' = [conc EXCEPT !.task[r].pc = "Stage1Predicted",
                               !.task[r].s1 = MobileNetPredictor_predict(out),
                               !.training = ModeAfterPredict(@)]

\* process_image, NASNet branch up to the return; the task ends
ConcStage2(r) ==
    /\ conc.running = r
    /\ conc.task[r].pc = "Stage1Predicted"
    /\ NeedsSpecialist(conc.task[r].s1.class_index)
    /\ LET nasnet_result == SkinLesionClassifier_result(conc.weights2[r])
           t == conc.task[r]
       IN  conc' = [conc EXCEPT
                !.running = 0,
                !.task[r].pc = "Finalized",
                !.task[r].s2 = nasnet_result,
                !.task[r].response =
                    Result(nasnet_classes[nasnet_result.class_index],
                           NasnetConfidence(nasnet_result, t.s1.probabilities[t.s1.class_index]),
                           "NASNetMobile")]

\* process_image, else branch: the missing gradcam_visualization; the task ends
ConcTerminal(r) ==
    /\ conc.running = r
    /\ conc.task[r].pc = "Stage1Predicted"
    /\ ~NeedsSpecialist(conc.task[r].s1.class_index)
    /\ "gradcam_visualization" \notin MobileNetPredictorMethods
    /\ conc' = [conc EXCEPT
            !.running = 0,
            !.task[r].pc = "Failed",
            !.task[r].response =
                ExceptHandler("'MobileNetPredictor' object has no attribute 'gradcam_visualization'")]

InitConcurrent ==
    /\ pc = "Idle"
    /\ request = NoRequest
    /\ s1 = NoPrediction1
    /\ s2 = NoPrediction2
    /\ calls = NoCalls
    /\ gradcams = <<>>
    /\ response = NoResponse
    /\ nasnet_arch = "named"
    /\ gc = GcIdle
    /\ cmp = CmpIdle
    /\ pp = PpIdle
    /\ conc \in {[phase |-> "serving", weights1 |-> w1, weights2 |-> w2, training |-> FALSE,
                  running |-> 0, task |-> [r \in Requests |-> NewTask]] :
                    w1 \in [Requests -> ConcStage1Outs], w2 \in [Requests -> ConcStage2Outs]}

NextConcurrent ==
    \/ \E r \in Requests : ConcAccept(r) /\ UNCHANGED <<cascadeVars, gc, cmp, pp>>
    \/ \E r \in Requests : ConcResume(r) /\ UNCHANGED <<cascadeVars, gc, cmp, pp>>
    \/ \E r \in Requests : ConcStage1(r) /\ UNCHANGED <<cascadeVars, gc, cmp, pp>>
    \/ \E r \in Requests : ConcStage2(r) /\ UNCHANGED <<cascadeVars, gc, cmp, pp>>
    \/ \E r \in Requests : ConcTerminal(r) /\ UNCHANGED <<cascadeVars, gc, cmp, pp>>

SpecConcurrent == InitConcurrent /\ [][NextConcurrent]_vars

(***************************************************************************)
(* Claims about the cascade                                                *)
(***************************************************************************)
Finished == pc \in {"Finalized", "Failed"}

Stage2Calls ==
    calls.nasnet_predict_with_gradcam + calls.nasnet_model_predict + calls.tensorflow_grad_cam

\* C1: when Stage-1 returned the terminal index 1 no Stage-2 operation is ever
\* invoked for the request; when Stage-1 returned index 0 the request ends with
\* predict_with_gradcam invoked exactly once (and never more than once before).
CascadeExclusivity ==
    /\ s1.class_index # 0 => Stage2Calls = 0
    /\ calls.nasnet_predict_with_gradcam <= 1
    /\ calls.nasnet_model_predict <= 1
    /\ calls.tensorflow_grad_cam <= 1
    /\ (s1.class_index = 0 /\ pc # "Stage1Predicted") => calls.nasnet_predict_with_gradcam = 1

CascadeExclusivityWitness ==
    /\ pc = "Finalized"
    /\ s1.class_index = 0
    /\ calls.nasnet_predict_with_gradcam = 1
    /\ calls.mobilenet_predict = 1

\* C2: a request whose Stage-1 prediction is the terminal index 1 ends with a
\* result naming MobileNetV2, the terminal label and the Stage-1 probability p1.
TerminalScenario ==
    (Finished /\ s1.class_index = 1) =>
        response = Result("Melanoma", s1.probabilities[1], "MobileNetV2")

\* C3: on the specialist branch the result carries the table's label for the
\* Stage-2 index k (4 is Melanoma), names NASNetMobile and carries Stage-2's
\* probability for k; every Stage-2 index is in the table, no lookup fails.
Stage2LabelMapping ==
    /\ s2.class_index # -1 => s2.class_index \in DOMAIN nasnet_classes
    /\ response.detail # "KeyError"
    /\ (pc \in {"Stage2Predicted", "Finalized"} /\ s1.class_index = 0) =>
          /\ response.kind = "result"
          /\ response.class_name = nasnet_classes[s2.class_index]
          /\ s2.class_index = 4 => response.class_name = "Melanoma"
          /\ response.model_used = "NASNetMobile"
          /\ response.confidence = s2.probabilities[s2.class_index]

Stage2LabelMappingWitness ==
    /\ pc = "Finalized"
    /\ s1.class_index = 0
    /\ s2.class_index = 4
    /\ response.class_name = "Melanoma"
    /\ response.confidence # s1.probabilities[0]

\* C4: a request that produces a result ran exactly one Grad-CAM, against the
\* model named in the result and for the class that model predicted.
AttributionPath ==
    response.kind = "result" =>
        /\ Len(gradcams) = 1
        /\ calls.tensorflow_grad_cam + calls.pytorch_grad_cam = 1
        /\ gradcams[1].model = response.model_used
        /\ gradcams[1].target_class =
              (IF response.model_used = "NASNetMobile" THEN s2.class_index ELSE s1.class_index)

AttributionPathWitness ==
    /\ pc = "Finalized"
    /\ response.kind = "result"
    /\ Len(gradcams) = 1
    /\ gradcams[1].target_class = 6
    /\ s2.class_index = 6

\* C5: a request that fails because the bytes do not decode or because
\* preprocess returned None is reported with a 4xx status.
InvalidInputIsClientError ==
    (pc = "Failed" /\ request.is_image /\ (~request.decodable \/ ~request.preprocessed)) =>
        response.status_code \in 400..499


(***************************************************************************)
(* Claims about the heatmap                                                *)
(***************************************************************************)
Uniform(h) == \A x \in DOMAIN h, y \in DOMAIN h : h[x] = h[y]

\* C6: the heatmap either Grad-CAM routine returns has every cell a defined
\* number in [0,1], also when the rectified weighted sum has maximum 0.
HeatmapBound ==
    gc.phase = "done" => \A x \in GridCells : InUnit(gc.heatmap[x])

\* C7: when the rectified weighted sum is uniform the heatmap either Grad-CAM
\* routine returns is all zeros.
DegenerateHeatmapZero ==
    (gc.phase = "done" /\ Uniform(gc.rectified)) =>
        \A x \in GridCells : IsZero(gc.heatmap[x])


(***************************************************************************)
(* Claims about apply_grad_cam                                             *)
(***************************************************************************)
ZeroHeatmap(h) == \A x \in DOMAIN h : h[x] = 0
InRangeImage(im) == \A x \in DOMAIN im : \A c \in DOMAIN im[x] : 0 <= im[x][c] /\ im[x][c] <= ImgScale
Clamp01(v) == IF v < 0 THEN 0 ELSE IF v > ImgScale THEN ImgScale ELSE v

\* C8: for every image, heatmap with cells in [0,1] and alpha, the array
\* apply_grad_cam returns has the image's shape and every element in [0,1].
CompositingBound ==
    cmp.phase = "done" =>
        /\ DOMAIN cmp.out = DOMAIN cmp.image
        /\ \A x \in DOMAIN cmp.out :
              /\ DOMAIN cmp.out[x] = DOMAIN cmp.image[x]
              /\ \A c \in DOMAIN cmp.out[x] : 0 <= cmp.out[x][c] /\ cmp.out[x][c] <= ImgScale

CompositingBoundWitness ==
    /\ cmp.phase = "done"
    /\ cmp.alpha > 0
    /\ Len(cmp.heatmap) < ImgW
    /\ cmp.heatmap[1] = HeatScale
    /\ cmp.image[ImgW][0] = ImgScale \div 2
    /\ cmp.out[ImgW][0] = ImgScale
    /\ cmp.image[1][1] < 0
    /\ cmp.out[1][1] = 0

\* C9 as stated: for every image, apply_grad_cam(image, all-zero heatmap) is
\* exactly the image.
CompositeRoundTrip ==
    (cmp.phase = "done" /\ ZeroHeatmap(cmp.heatmap)) => cmp.out = cmp.image

\* C9 amended: for every image with all elements in [0,1] the all-zero heatmap
\* gives back exactly the image; for any image it gives clip(image, 0, 1); and
\* for any heatmap and alpha channels 1 and 2 of the result are those of
\* clip(image, 0, 1), so only channel 0 can carry the heatmap.
CompositeRoundTripInRange ==
    cmp.phase = "done" =>
        /\ (ZeroHeatmap(cmp.heatmap) /\ InRangeImage(cmp.image)) => cmp.out = cmp.image
        /\ ZeroHeatmap(cmp.heatmap) =>
              \A x \in ImgCells : \A c \in InChannels : cmp.out[x][c] = Clamp01(cmp.image[x][c])
        /\ \A x \in ImgCells : \A c \in InChannels \ {0} :
              cmp.out[x][c] = Clamp01(cmp.image[x][c])

CompositeRoundTripWitness ==
    /\ cmp.phase = "done"
    /\ ZeroHeatmap(cmp.heatmap)
    /\ InRangeImage(cmp.image)
    /\ cmp.alpha = DefaultAlpha
    /\ cmp.image[1][0] = ImgScale \div 2
    /\ cmp.out = cmp.image


(***************************************************************************)
(* Claims about preprocessing                                              *)
(***************************************************************************)
\* C10: the steps run in the order hair removal, sharpening, resize; a hair
\* removal that fails yields its unmodified input, so preprocess returns
\* resize(sharpen(input)); a sharpening that fails yields its input, so
\* preprocess returns resize(hair_remove(input)); neither failure gives None
\* or a partly processed image.
FailSoftPreprocessing ==
    (pp.phase = "done" /\ ~pp.resize_raises) =>
        /\ pp.out # None
        /\ pp.hair_raise_at # 0 => pp.after_hair = pp.image
        /\ pp.sharpen_raise_at # 0 => pp.after_sharpen = pp.after_hair
        /\ (pp.hair_raise_at # 0 /\ pp.sharpen_raise_at = 0) =>
              pp.out = ResizeNearest(SharpenFilter(pp.image))
        /\ (pp.hair_raise_at = 0 /\ pp.sharpen_raise_at # 0) =>
              pp.out = ResizeNearest(HairFilter(pp.image))
        /\ (pp.hair_raise_at = 0 /\ pp.sharpen_raise_at = 0) =>
              pp.out = ResizeNearest(SharpenFilter(HairFilter(pp.image)))

FailSoftPreprocessingWitness ==
    /\ pp.phase = "done"
    /\ pp.hair_raise_at = 4
    /\ pp.sharpen_raise_at = 0
    /\ ~pp.resize_raises
    /\ HairFilter(pp.image) # pp.image
    /\ pp.out = ResizeNearest(SharpenFilter(pp.image))
    /\ pp.out # ResizeNearest(SharpenFilter(HairFilter(pp.image)))
    /\ pp.out # ResizeNearest(pp.image)


(***************************************************************************)
(* Claims about the target layer and the weighting                         *)
(***************************************************************************)
\* C11: in both backends a target-layer name that does not resolve makes the
\* routine try the last convolutional layer exactly once; when that yields a
\* layer the attribution goes on with it, when it yields none the routine
\* fails with the layer-not-found ValueError and no other error.
LayerNotFoundHandling ==
    (gc.phase \in {"layer", "failed", "done"} /\ gc.arch # "named") =>
        /\ gc.fallbacks = 1
        /\ gc.arch = "last_conv" =>
              (gc.phase \in {"layer", "done"} /\ gc.target_layer = "last_conv2d")
        /\ gc.arch = "no_conv" => (gc.phase = "failed" /\ gc.error = "ValueError")

\* C13: in both backends the gradient is taken with respect to the captured
\* target-layer activation, there is one weight per channel of the activation
\* grid, and the heatmap before rectification is the sum over all those
\* channels of weight[c] * activation[c], one value per cell of the activation.
GradCamWeighting ==
    gc.phase = "done" =>
        /\ gc.gradient_wrt \in {"conv_output", "features"}
        /\ DOMAIN gc.weights = DOMAIN gc.activation
        /\ DOMAIN gc.raw = GridCells
        /\ \A x \in GridCells :
              gc.raw[x] =
                SumF([c \in DOMAIN gc.activation |->
                        SumF(gc.gradient[c], GridCells) * gc.activation[c][x]],
                     DOMAIN gc.activation)


(***************************************************************************)
(* Claims about requests served at the same time                           *)
(***************************************************************************)
\* what request r gets when it is the only request: eval-mode weights
AloneResponse(r) ==
    LET first == MobileNetPredictor_predict(conc.weights1[r])
        second == SkinLesionClassifier_result(conc.weights2[r])
    IN  IF first.class_index = 0
          THEN Result(nasnet_classes[second.class_index],
                      second.probabilities[second.class_index], "NASNetMobile")
          ELSE ExceptHandler("'MobileNetPredictor' object has no attribute 'gradcam_visualization'")

\* C12: whatever requests are served at the same time, each finished request
\* has the response it gets when served alone; the operations of two requests
\* on the shared models never interleave (at most one request is inside
\* process_image) and the shared model state stays as loaded.
RequestIndependence ==
    /\ conc.training = FALSE
    /\ \A r \in Requests :
          /\ conc.task[r].pc \in {"Start", "Stage1Predicted"} => conc.running = r
          /\ conc.task[r].pc \in {"Finalized", "Failed"} =>
                conc.task[r].response = AloneResponse(r)

RequestIndependenceWitness ==
    /\ \A r \in Requests : conc.task[r].pc \in {"Finalized", "Failed"}
    /\ \E r \in Requests : conc.task[r].overlapped
    /\ \E r \in Requests : conc.task[r].pc = "Finalized"
    /\ \E r \in Requests : conc.task[r].pc = "Failed"

====
